---- MODULE Spec2Model ----
(***************************************************************************)
(* Model of the OAuth 2.0 token-endpoint grant processors of               *)
(* src/src/utils/token.rs: authorization_code, client_credentials and      *)
(* refresh_token, run against a datastore of four tables (Clients,         *)
(* GrantTypes, AccessTokens, RefreshTokens).                               *)
(*                                                                         *)
(* The processors are translated from token.rs.  The validators, the      *)
(* lookups and the token generator they call (the check, get and           *)
(* generate functions of utils) are not part of token.rs; they are         *)
(* modelled from their contracts in spec.md sections 4.1 to 4.3.           *)
(*                                                                         *)
(* One call is in flight at a time.  A call takes one step per datastore   *)
(* statement that reads or writes a table another party can change, so    *)
(* that the revocation or expiry of a refresh token can fall between the   *)
(* statements of a call, as it can on a connection with no transaction.    *)
(***************************************************************************)
EXTENDS Naturals, Sequences, FiniteSets, TLC

VARIABLES
  grantTypes,     \* GrantTypes table: name -> row [name, enabled]
  accessTokens,   \* AccessTokens table: set of rows
  refreshTokens,  \* RefreshTokens table: set of rows
  pc,             \* position of the call in flight
  fn,             \* the processor the call runs
  req,            \* the AccessTokenRequest of the call
  locals,         \* the let-bindings of the processor
  result,         \* what the call returned
  calls,          \* the utils functions the call has invoked, in order
  pre             \* the token tables as they were when the call started

vars == <<grantTypes, accessTokens, refreshTokens, pc, fn, req, locals,
          result, calls, pre>>

(***************************************************************************)
(* Bounds of the model.                                                    *)
(***************************************************************************)
MaxRows == 4      \* rows of the two token tables together

(***************************************************************************)
(* Option<T>: None is the empty sequence, Some(v) the one-element one.     *)
(***************************************************************************)
None == <<>>
Some(v) == <<v>>
is_none(o) == o = <<>>
is_some(o) == o # <<>>
unwrap(o) == o[1]

(***************************************************************************)
(* Result<T, String> of the validators.                                    *)
(***************************************************************************)
Ok(v) == [ok |-> TRUE, val |-> Some(v), err |-> ""]
Err(msg) == [ok |-> FALSE, val |-> None, err |-> msg]

(***************************************************************************)
(* Result<AccessTokenResponse, OAuth2Error> of a processor.  A panic of    *)
(* the processor (an unwrap of None) is the third outcome.                 *)
(***************************************************************************)
Pending == [kind |-> "Pending", error |-> "", response |-> None]
OkResponse(resp) == [kind |-> "Ok", error |-> "", response |-> Some(resp)]
oauth_error(msg) == [kind |-> "Err", error |-> msg, response |-> None]
Panic == [kind |-> "Panic", error |-> "", response |-> None]

ErrorKinds == {"invalid_request", "invalid_client", "invalid_grant",
               "unauthorized_client", "unsupported_grant_type",
               "invalid_scope"}

(***************************************************************************)
(* Scopes.  A scope travels and is stored as a string, here the sequence   *)
(* of its permission words; the validators read it as a set.               *)
(***************************************************************************)
ScopeStrings == {<<>>, <<"read">>, <<"read", "write">>}
ScopeSet(s) == {s[i] : i \in DOMAIN s}

(***************************************************************************)
(* Clients table.  The core never creates, changes or deletes a client.    *)
(***************************************************************************)
Clients == {[id |-> "c1", secret |-> "s1"], [id |-> "c2", secret |-> "s2"]}

GrantNames == {"authorization_code", "client_credentials", "refresh_token"}

(***************************************************************************)
(* Requests.  Each processor is given every combination of the fields its  *)
(* code or its header comment names; the other fields are None.            *)
(***************************************************************************)
Opt(S) == {None} \cup {Some(v) : v \in S}

Request(gt, cid, sec, cd, rt, sc) ==
  [grant_type |-> gt, client_id |-> cid, client_secret |-> sec, code |-> cd,
   redirect_uri |-> None, refresh_token |-> rt, scope |-> sc]

NoRequest == Request(None, None, None, None, None, None)

GrantTypeFields == Opt(GrantNames \cup {"password"})
ScopeFields == Opt(ScopeStrings)
\* A token is an opaque identifier: <<"at", n>> or <<"rt", n>>.  The refresh
\* token <<"rt", 0>> is never issued.
RefreshTokenFields == Opt({<<"rt", n>> : n \in 0..(MaxRows \div 2)})

\* <<client_id, client_secret>>: either absent, a registered client with its
\* secret, a registered client with another secret, an unregistered client.
Credentials ==
  {<<None, None>>, <<None, Some("s1")>>, <<Some("c1"), None>>,
   <<Some("c1"), Some("s1")>>, <<Some("c2"), Some("s2")>>,
   <<Some("c1"), Some("s2")>>, <<Some("cX"), Some("s1")>>}

ClientCredentialsRequests ==
  {Request(gt, cr[1], cr[2], None, None, sc) :
     gt \in GrantTypeFields, cr \in Credentials, sc \in ScopeFields}

AuthorizationCodeRequests ==
  {Request(gt, cr[1], cr[2], cd, None, None) :
     gt \in GrantTypeFields, cr \in Credentials, cd \in Opt({"code1"})}

RefreshTokenRequests ==
  {Request(gt, cr[1], cr[2], None, rt, sc) :
     gt \in {Some("refresh_token")},
     cr \in {<<None, None>>, <<Some("c1"), Some("s1")>>,
              <<Some("c2"), Some("s1")>>},
     rt \in RefreshTokenFields, sc \in ScopeFields}

(***************************************************************************)
(* Validators and lookups (spec.md 4.1, 4.2).                              *)
(***************************************************************************)
check_client_credentials(id, secret) ==
  IF \E c \in Clients : c.id = id /\ c.secret = secret
  THEN Ok(CHOOSE c \in Clients : c.id = id /\ c.secret = secret)
  ELSE Err("invalid_client")

check_grant_type(name) ==
  IF name \in DOMAIN grantTypes /\ grantTypes[name].enabled
  THEN Ok(grantTypes[name])
  ELSE Err("unsupported_grant_type")

check_refresh_token(token) ==
  IF \E t \in refreshTokens : t.token = token /\ t.status = "valid"
  THEN Ok(CHOOSE t \in refreshTokens : t.token = token /\ t.status = "valid")
  ELSE Err("invalid_grant")

check_scope(requested, original) ==
  IF ScopeSet(requested) # {} /\ ScopeSet(requested) \subseteq ScopeSet(original)
  THEN Ok(requested)
  ELSE Err("invalid_scope")

get_client_by_id(id) == CHOOSE c \in Clients : c.id = id

get_grant_type_by_name(name) == grantTypes[name]

(***************************************************************************)
(* Token generator (spec.md 4.3).                                          *)
(***************************************************************************)
FreshId(table, kind) ==
  LET n == CHOOSE n \in 1..(Cardinality(table) + 1) :
             /\ \A t \in table : t.token # <<kind, n>>
             /\ \A m \in 1..(n - 1) : \E t \in table : t.token = <<kind, m>>
  IN <<kind, n>>

generate_access_token(client, grant_type, scope) ==
  [token |-> FreshId(accessTokens, "at"), client_id |-> client.id,
   grant_type |-> grant_type.name, scope |-> scope]

generate_refresh_token(client, scope) ==
  [token |-> FreshId(refreshTokens, "rt"), client_id |-> client.id,
   scope |-> scope, status |-> "valid"]

generate_token_response(at, rt) ==
  [access_token |-> at.token, token_type |-> "bearer",
   refresh_token |-> IF is_some(rt) THEN Some(unwrap(rt).token) ELSE None,
   scope |-> at.scope]

(***************************************************************************)
(* The let-bindings of a processor, and what its checks come to: either    *)
(* the call stops with a result, or it goes on to token issuance.          *)
(***************************************************************************)
NoLocals ==
  [client |-> None, grant_type |-> None, scope |-> None,
   refresh_token |-> None, at |-> None]

Stop(res, cs) == [result |-> res, calls |-> cs, locals |-> NoLocals]
Go(l, cs) == [result |-> Pending, calls |-> cs, locals |-> l]

NoTables == [accessTokens |-> {}, refreshTokens |-> {}]

\* The model takes a call while the token tables have room for n more rows.
Rows == Cardinality(accessTokens) + Cardinality(refreshTokens)
Room(n) == Rows + n <= MaxRows

\* A call starts: the checks of processor f on request r came to o.
Begin(f, r, o, next) ==
  /\ pc = "idle"
  /\ fn' = f
  /\ req' = r
  /\ pre' = [accessTokens |-> accessTokens, refreshTokens |-> refreshTokens]
  /\ result' = o.result
  /\ calls' = o.calls
  /\ locals' = o.locals
  /\ pc' = IF o.result = Pending THEN next ELSE "done"
  /\ UNCHANGED <<grantTypes, accessTokens, refreshTokens>>

(***************************************************************************)
(* authorization_code (token.rs 17-39).                                    *)
(***************************************************************************)
\* As authorization_code_checks, with the grant type checked before the
\* client is authenticated.
authorization_code_checks_grant_first(r) ==
  IF is_none(r.client_id) \/ is_none(r.client_secret) \/ is_none(r.code)
  THEN Stop(oauth_error("invalid_request"), <<>>)
  ELSE IF is_none(r.grant_type) THEN Stop(Panic, <<>>)
  ELSE
    LET grant_type == check_grant_type(unwrap(r.grant_type))
        cs1 == <<"check_grant_type">>
    IN IF ~grant_type.ok THEN Stop(oauth_error(grant_type.err), cs1)
       ELSE
         LET client == check_client_credentials(unwrap(r.client_id),
                                                unwrap(r.client_secret))
             cs2 == Append(cs1, "check_client_credentials")
         IN IF ~client.ok THEN Stop(oauth_error(client.err), cs2)
            ELSE Stop(oauth_error("unsupported_grant_type"), cs2)

\* As authorization_code_checks, with the presence of code not checked.
authorization_code_checks_code_unchecked(r) ==
  IF is_none(r.client_id) \/ is_none(r.client_secret)
  THEN Stop(oauth_error("invalid_request"), <<>>)
  ELSE
    LET client == check_client_credentials(unwrap(r.client_id),
                                           unwrap(r.client_secret))
        cs1 == <<"check_client_credentials">>
    IN IF ~client.ok THEN Stop(oauth_error(client.err), cs1)
       ELSE Stop(oauth_error("unsupported_grant_type"), cs1)

authorization_code_checks(r) ==
  IF is_none(r.client_id) \/ is_none(r.client_secret) \/ is_none(r.code)
  THEN Stop(oauth_error("invalid_request"), <<>>)
  ELSE
    LET client == check_client_credentials(unwrap(r.client_id),
                                           unwrap(r.client_secret))
        cs1 == <<"check_client_credentials">>
    IN IF ~client.ok THEN Stop(oauth_error(client.err), cs1)
       ELSE IF is_none(r.grant_type) THEN Stop(Panic, cs1)
       ELSE
         LET grant_type == check_grant_type(unwrap(r.grant_type))
             cs2 == Append(cs1, "check_grant_type")
         IN IF ~grant_type.ok THEN Stop(oauth_error(grant_type.err), cs2)
            ELSE Stop(oauth_error("unsupported_grant_type"), cs2)

authorization_code(r) ==
  /\ Room(2)
  /\ Begin("authorization_code", r, authorization_code_checks(r), "done")

(***************************************************************************)
(* client_credentials (token.rs 46-66).                                    *)
(***************************************************************************)
\* As client_credentials_checks, with the grant type checked before the
\* client is authenticated.
client_credentials_checks_grant_first(r) ==
  IF is_none(r.client_id) \/ is_none(r.client_secret) \/ is_none(r.scope)
  THEN Stop(oauth_error("invalid_request"), <<>>)
  ELSE IF is_none(r.grant_type) THEN Stop(Panic, <<>>)
  ELSE
    LET grant_type == check_grant_type(unwrap(r.grant_type))
        cs1 == <<"check_grant_type">>
    IN IF ~grant_type.ok THEN Stop(oauth_error(grant_type.err), cs1)
       ELSE
         LET client == check_client_credentials(unwrap(r.client_id),
                                                unwrap(r.client_secret))
             cs2 == Append(cs1, "check_client_credentials")
         IN IF ~client.ok THEN Stop(oauth_error(client.err), cs2)
            ELSE Go([NoLocals EXCEPT !.client = client.val,
                                     !.grant_type = grant_type.val,
                                     !.scope = r.scope], cs2)

client_credentials_checks(r) ==
  IF is_none(r.client_id) \/ is_none(r.client_secret) \/ is_none(r.scope)
  THEN Stop(oauth_error("invalid_request"), <<>>)
  ELSE
    LET client == check_client_credentials(unwrap(r.client_id),
                                           unwrap(r.client_secret))
        cs1 == <<"check_client_credentials">>
    IN IF ~client.ok THEN Stop(oauth_error(client.err), cs1)
       ELSE IF is_none(r.grant_type) THEN Stop(Panic, cs1)
       ELSE
         LET grant_type == check_grant_type(unwrap(r.grant_type))
             cs2 == Append(cs1, "check_grant_type")
         IN IF ~grant_type.ok THEN Stop(oauth_error(grant_type.err), cs2)
            ELSE Go([NoLocals EXCEPT !.client = client.val,
                                     !.grant_type = grant_type.val,
                                     !.scope = r.scope], cs2)

client_credentials_begin(r) ==
  /\ Room(2)
  /\ Begin("client_credentials", r, client_credentials_checks(r),
           "cc_generate_access_token")

\* As client_credentials_access_token, with a check that fails placed after
\* the access token is generated.
client_credentials_access_token_then_reject ==
  /\ pc = "cc_generate_access_token"
  /\ LET at == generate_access_token(unwrap(locals.client),
                                     unwrap(locals.grant_type),
                                     unwrap(locals.scope))
     IN /\ accessTokens' = accessTokens \cup {at}
        /\ locals' = [locals EXCEPT !.at = Some(at)]
  /\ calls' = Append(calls, "generate_access_token")
  /\ result' = oauth_error("invalid_scope")
  /\ pc' = "done"
  /\ UNCHANGED <<grantTypes, refreshTokens, fn, req, pre>>

\* token.rs 63
client_credentials_access_token ==
  /\ pc = "cc_generate_access_token"
  /\ LET at == generate_access_token(unwrap(locals.client),
                                     unwrap(locals.grant_type),
                                     unwrap(locals.scope))
     IN /\ accessTokens' = accessTokens \cup {at}
        /\ locals' = [locals EXCEPT !.at = Some(at)]
  /\ calls' = Append(calls, "generate_access_token")
  /\ pc' = "cc_generate_refresh_token"
  /\ UNCHANGED <<grantTypes, refreshTokens, fn, req, result, pre>>

\* As client_credentials_refresh_token, with the refresh token left out of
\* the response.
client_credentials_refresh_token_not_returned ==
  /\ pc = "cc_generate_refresh_token"
  /\ LET rt == generate_refresh_token(unwrap(locals.client),
                                      unwrap(locals.scope))
     IN /\ refreshTokens' = refreshTokens \cup {rt}
        /\ result' = OkResponse(generate_token_response(unwrap(locals.at),
                                                        None))
  /\ calls' = Append(calls, "generate_refresh_token")
  /\ pc' = "done"
  /\ UNCHANGED <<grantTypes, accessTokens, fn, req, locals, pre>>

\* token.rs 64-65
\* As client_credentials_refresh_token, with the client's earlier refresh
\* tokens superseded (deleted) by the new one.
client_credentials_refresh_token_superseding ==
  /\ pc = "cc_generate_refresh_token"
  /\ LET rt == generate_refresh_token(unwrap(locals.client),
                                      unwrap(locals.scope))
     IN /\ refreshTokens' =
             {t \in refreshTokens : t.client_id # rt.client_id} \cup {rt}
        /\ result' = OkResponse(generate_token_response(unwrap(locals.at),
                                                        Some(rt)))
  /\ calls' = Append(calls, "generate_refresh_token")
  /\ pc' = "done"
  /\ UNCHANGED <<grantTypes, accessTokens, fn, req, locals, pre>>

client_credentials_refresh_token ==
  /\ pc = "cc_generate_refresh_token"
  /\ LET rt == generate_refresh_token(unwrap(locals.client),
                                      unwrap(locals.scope))
     IN /\ refreshTokens' = refreshTokens \cup {rt}
        /\ result' = OkResponse(generate_token_response(unwrap(locals.at),
                                                        Some(rt)))
  /\ calls' = Append(calls, "generate_refresh_token")
  /\ pc' = "done"
  /\ UNCHANGED <<grantTypes, accessTokens, fn, req, locals, pre>>

(***************************************************************************)
(* refresh_token (token.rs 73-98).                                         *)
(***************************************************************************)
\* As refresh_token_checks, with the requested scope taken as it is.
refresh_token_checks_scope_unchecked(r) ==
  IF is_none(r.refresh_token) \/ is_none(r.scope)
  THEN Stop(oauth_error("invalid_request"), <<>>)
  ELSE
    LET refresh_token == check_refresh_token(unwrap(r.refresh_token))
        cs1 == <<"check_refresh_token">>
    IN IF ~refresh_token.ok THEN Stop(oauth_error("invalid_request"), cs1)
       ELSE
         LET client ==
               get_client_by_id(unwrap(refresh_token.val).client_id)
             grant_type == get_grant_type_by_name("refresh_token")
         IN Go([NoLocals EXCEPT !.refresh_token = refresh_token.val,
                                !.scope = r.scope,
                                !.client = Some(client),
                                !.grant_type = Some(grant_type)],
               cs1 \o <<"get_client_by_id", "get_grant_type_by_name">>)

\* As refresh_token_checks, with the requested scope checked against every
\* scope there is instead of the scope stored on the refresh token.
refresh_token_checks_any_known_scope(r) ==
  IF is_none(r.refresh_token) \/ is_none(r.scope)
  THEN Stop(oauth_error("invalid_request"), <<>>)
  ELSE
    LET refresh_token == check_refresh_token(unwrap(r.refresh_token))
        cs1 == <<"check_refresh_token">>
    IN IF ~refresh_token.ok THEN Stop(oauth_error("invalid_request"), cs1)
       ELSE
         LET scope == check_scope(unwrap(r.scope), <<"read", "write">>)
             cs2 == Append(cs1, "check_scope")
         IN IF ~scope.ok THEN Stop(oauth_error(scope.err), cs2)
            ELSE
              LET client ==
                    get_client_by_id(unwrap(refresh_token.val).client_id)
                  grant_type == get_grant_type_by_name("refresh_token")
              IN Go([NoLocals EXCEPT !.refresh_token = refresh_token.val,
                                     !.scope = scope.val,
                                     !.client = Some(client),
                                     !.grant_type = Some(grant_type)],
                    cs2 \o <<"get_client_by_id", "get_grant_type_by_name">>)

refresh_token_checks(r) ==
  IF is_none(r.refresh_token) \/ is_none(r.scope)
  THEN Stop(oauth_error("invalid_request"), <<>>)
  ELSE
    LET refresh_token == check_refresh_token(unwrap(r.refresh_token))
        cs1 == <<"check_refresh_token">>
    IN IF ~refresh_token.ok THEN Stop(oauth_error("invalid_request"), cs1)
       ELSE
         LET scope == check_scope(unwrap(r.scope),
                                  unwrap(refresh_token.val).scope)
             cs2 == Append(cs1, "check_scope")
         IN IF ~scope.ok THEN Stop(oauth_error(scope.err), cs2)
            ELSE
              LET client ==
                    get_client_by_id(unwrap(refresh_token.val).client_id)
                  grant_type == get_grant_type_by_name("refresh_token")
              IN Go([NoLocals EXCEPT !.refresh_token = refresh_token.val,
                                     !.scope = scope.val,
                                     !.client = Some(client),
                                     !.grant_type = Some(grant_type)],
                    cs2 \o <<"get_client_by_id", "get_grant_type_by_name">>)

refresh_token_begin(r) ==
  /\ Room(1)
  /\ Begin("refresh_token", r, refresh_token_checks(r),
           "rt_generate_access_token")

\* As refresh_token_access_token, with the presented refresh token consumed
\* by the grant.
refresh_token_access_token_consuming ==
  /\ pc = "rt_generate_access_token"
  /\ LET access_token == generate_access_token(unwrap(locals.client),
                                               unwrap(locals.grant_type),
                                               unwrap(locals.scope))
     IN /\ accessTokens' = accessTokens \cup {access_token}
        /\ locals' = [locals EXCEPT !.at = Some(access_token)]
        /\ result' = OkResponse(generate_token_response(access_token,
                                                        locals.refresh_token))
  /\ refreshTokens' =
       {IF t.token = unwrap(locals.refresh_token).token
        THEN [t EXCEPT !.status = "revoked"] ELSE t : t \in refreshTokens}
  /\ calls' = Append(calls, "generate_access_token")
  /\ pc' = "done"
  /\ UNCHANGED <<grantTypes, fn, req, pre>>

\* As refresh_token_access_token, with the scope stored on the refresh token
\* narrowed to the scope just granted.
refresh_token_access_token_narrowing ==
  /\ pc = "rt_generate_access_token"
  /\ LET access_token == generate_access_token(unwrap(locals.client),
                                               unwrap(locals.grant_type),
                                               unwrap(locals.scope))
     IN /\ accessTokens' = accessTokens \cup {access_token}
        /\ locals' = [locals EXCEPT !.at = Some(access_token)]
        /\ result' = OkResponse(generate_token_response(access_token,
                                                        locals.refresh_token))
  /\ refreshTokens' =
       {IF t.token = unwrap(locals.refresh_token).token
        THEN [t EXCEPT !.scope = unwrap(locals.scope)] ELSE t :
          t \in refreshTokens}
  /\ calls' = Append(calls, "generate_access_token")
  /\ pc' = "done"
  /\ UNCHANGED <<grantTypes, fn, req, pre>>

\* token.rs 96-97
refresh_token_access_token ==
  /\ pc = "rt_generate_access_token"
  /\ LET access_token == generate_access_token(unwrap(locals.client),
                                               unwrap(locals.grant_type),
                                               unwrap(locals.scope))
     IN /\ accessTokens' = accessTokens \cup {access_token}
        /\ locals' = [locals EXCEPT !.at = Some(access_token)]
        /\ result' = OkResponse(generate_token_response(access_token,
                                                        locals.refresh_token))
  /\ calls' = Append(calls, "generate_access_token")
  /\ pc' = "done"
  /\ UNCHANGED <<grantTypes, refreshTokens, fn, req, pre>>

(***************************************************************************)
(* The caller takes the result; the next call can start.                   *)
(***************************************************************************)
Return ==
  /\ pc = "done"
  /\ pc' = "idle"
  /\ fn' = "none"
  /\ req' = NoRequest
  /\ locals' = NoLocals
  /\ result' = Pending
  /\ calls' = <<>>
  /\ pre' = NoTables
  /\ UNCHANGED <<grantTypes, accessTokens, refreshTokens>>

(***************************************************************************)
(* The other parties of the datastore: a refresh token is revoked, or its  *)
(* expiry passes (spec.md 3, 4.2).  Either can fall between two statements *)
(* of a call.                                                              *)
(***************************************************************************)
SetStatus(t, status) ==
  /\ pc # "done"
  /\ t.status = "valid"
  /\ refreshTokens' = (refreshTokens \ {t}) \cup {[t EXCEPT !.status = status]}
  /\ UNCHANGED <<grantTypes, accessTokens, pc, fn, req, locals, result,
                 calls, pre>>

RevokeRefreshToken == \E t \in refreshTokens : SetStatus(t, "revoked")

ExpireRefreshToken == \E t \in refreshTokens : SetStatus(t, "expired")

(***************************************************************************)
(* The specification.                                                      *)
(***************************************************************************)
Init ==
  /\ grantTypes \in {[n \in GrantNames |-> [name |-> n, enabled |-> e[n]]] :
                       e \in [GrantNames -> BOOLEAN]}
  /\ accessTokens = {}
  /\ refreshTokens = {}
  /\ pc = "idle"
  /\ fn = "none"
  /\ req = NoRequest
  /\ locals = NoLocals
  /\ result = Pending
  /\ calls = <<>>
  /\ pre = NoTables

Next ==
  \/ \E r \in AuthorizationCodeRequests : authorization_code(r)
  \/ \E r \in ClientCredentialsRequests : client_credentials_begin(r)
  \/ client_credentials_access_token
  \/ client_credentials_refresh_token
  \/ \E r \in RefreshTokenRequests : refresh_token_begin(r)
  \/ refresh_token_access_token
  \/ Return
  \/ RevokeRefreshToken
  \/ ExpireRefreshToken

Spec == Init /\ [][Next]_vars

(***************************************************************************)
(* A failing datastore.  An insert can fail for a reason of the            *)
(* infrastructure (spec.md 5, 6, 7: connection loss).  generate_access_token *)
(* and generate_refresh_token return the row itself, not a Result, so the  *)
(* failure ends the call in a panic; what the call had written before      *)
(* stays, as token.rs opens no transaction.  The model follows the         *)
(* connection up to its first failure.                                     *)
(***************************************************************************)
DatastoreFault ==
  /\ pc \in {"cc_generate_access_token", "cc_generate_refresh_token",
             "rt_generate_access_token"}
  /\ calls' = Append(calls, IF pc = "cc_generate_refresh_token"
                            THEN "generate_refresh_token"
                            ELSE "generate_access_token")
  /\ result' = Panic
  /\ pc' = "done"
  /\ UNCHANGED <<grantTypes, accessTokens, refreshTokens, fn, req, locals,
                 pre>>

\* The connection of the failed call is lost: no further call is made on it.
ConnectionLost ==
  /\ result = Panic
  /\ calls # <<>>
  /\ calls[Len(calls)] \in {"generate_access_token", "generate_refresh_token"}

NextFault ==
  \/ \E r \in AuthorizationCodeRequests : authorization_code(r)
  \/ \E r \in ClientCredentialsRequests : client_credentials_begin(r)
  \/ client_credentials_access_token
  \/ client_credentials_refresh_token
  \/ \E r \in RefreshTokenRequests : refresh_token_begin(r)
  \/ refresh_token_access_token
  \/ Return /\ ~ConnectionLost
  \/ RevokeRefreshToken
  \/ ExpireRefreshToken
  \/ DatastoreFault

SpecFault == Init /\ [][NextFault]_vars

(***************************************************************************)
(* Vocabulary of the properties.                                           *)
(***************************************************************************)
Done(f) == pc = "done" /\ fn = f

TokenIds(table) == {t.token : t \in table}
NewRows(table, old) == {t \in table : t.token \notin TokenIds(old)}

\* Both token tables are as they were when the call started.
TablesUnchanged ==
  /\ accessTokens = pre.accessTokens
  /\ refreshTokens = pre.refreshTokens

Registered(id, secret) == \E c \in Clients : c.id = id /\ c.secret = secret

RequiredFields(f) ==
  CASE f = "authorization_code" -> {"client_id", "client_secret", "code"}
    [] f = "client_credentials" -> {"client_id", "client_secret", "scope"}
    [] f = "refresh_token" -> {"refresh_token", "scope"}
    [] OTHER -> {}

\* Some field the processor of the call requires is absent from the request.
LacksRequiredField == \E x \in RequiredFields(fn) : is_none(req[x])

\* The refresh token row the request presented, as it was at the lookup.
Presented(token) == CHOOSE t \in pre.refreshTokens : t.token = token

PresentsValidRefreshToken ==
  /\ is_some(req.refresh_token)
  /\ \E t \in pre.refreshTokens :
       t.token = unwrap(req.refresh_token) /\ t.status = "valid"

(***************************************************************************)
(* C1.  A client_credentials call whose request has client_id,             *)
(* client_secret, scope and grant_type, the credentials of a registered    *)
(* client and the name of an enabled grant type returns Ok; it has written *)
(* exactly one access token row and one refresh token row, with            *)
(* identifiers no stored row had, both bound to the authenticated client   *)
(* and to the requested scope, and the response carries both tokens.       *)
(***************************************************************************)
C1_ValidRequest ==
  /\ Done("client_credentials")
  /\ is_some(req.client_id) /\ is_some(req.client_secret)
  /\ is_some(req.scope) /\ is_some(req.grant_type)
  /\ Registered(unwrap(req.client_id), unwrap(req.client_secret))
  /\ unwrap(req.grant_type) \in DOMAIN grantTypes
  /\ grantTypes[unwrap(req.grant_type)].enabled

\* C1: a valid client_credentials call returns Ok, has written one new access
\* token row and one new refresh token row with unused identifiers, bound to
\* the client and the requested scope, and returns both tokens.
C1_ClientCredentialsIssuesBoth ==
  C1_ValidRequest =>
    /\ result.kind = "Ok"
    /\ pre.accessTokens \subseteq accessTokens
    /\ TokenIds(pre.refreshTokens) \subseteq TokenIds(refreshTokens)
    /\ Cardinality(TokenIds(accessTokens \cup refreshTokens))
         = Cardinality(accessTokens) + Cardinality(refreshTokens)
    /\ \E at \in accessTokens, rt \in refreshTokens :
         /\ NewRows(accessTokens, pre.accessTokens) = {at}
         /\ NewRows(refreshTokens, pre.refreshTokens) = {rt}
         /\ at.token # rt.token
         /\ {at.token, rt.token} \cap
              TokenIds(pre.accessTokens \cup pre.refreshTokens) = {}
         /\ at.client_id = unwrap(req.client_id)
         /\ rt.client_id = unwrap(req.client_id)
         /\ at.scope = unwrap(req.scope)
         /\ rt.scope = unwrap(req.scope)
         /\ unwrap(result.response).access_token = at.token
         /\ unwrap(result.response).refresh_token = Some(rt.token)

\* A valid client_credentials call has returned with rows already stored.
C1_Witness ==
  /\ C1_ValidRequest
  /\ result.kind = "Ok"
  /\ pre.accessTokens # {} /\ pre.refreshTokens # {}

(***************************************************************************)
(* C2.  A refresh_token call that presents a stored, valid refresh token:  *)
(* a requested scope that is not a subset of the token's scope gives       *)
(* Err(invalid_scope) and no row; a requested scope that is a subset gives *)
(* Ok, one new access token row, and the presented refresh token back.     *)
(***************************************************************************)
C2_Case == Done("refresh_token") /\ PresentsValidRefreshToken
             /\ is_some(req.scope)

C2_Rejected == result = oauth_error("invalid_scope") /\ TablesUnchanged

C2_Granted ==
  /\ result.kind = "Ok"
  /\ \E at \in accessTokens :
       /\ NewRows(accessTokens, pre.accessTokens) = {at}
       /\ unwrap(result.response).access_token = at.token
  /\ pre.accessTokens \subseteq accessTokens
  /\ unwrap(result.response).refresh_token = req.refresh_token

C2_Requested == ScopeSet(unwrap(req.scope))
C2_Stored == ScopeSet(Presented(unwrap(req.refresh_token)).scope)

\* C2 as stated: every subset, the empty one too, is granted.
C2_RefreshScopeAsStated ==
  C2_Case => IF C2_Requested \subseteq C2_Stored
             THEN C2_Granted ELSE C2_Rejected

\* C2 amended: the subset must be non-empty; an empty requested scope is
\* rejected with invalid_scope like one that is not a subset.
C2_RefreshScope ==
  C2_Case => IF C2_Requested # {} /\ C2_Requested \subseteq C2_Stored
             THEN C2_Granted ELSE C2_Rejected

\* A strictly narrower non-empty scope was granted.
C2_Witness ==
  /\ C2_Case
  /\ C2_Requested # {} /\ C2_Requested \subseteq C2_Stored
  /\ C2_Requested # C2_Stored
  /\ result.kind = "Ok"

C4_Case ==
  /\ pc = "done"
  /\ fn \in {"client_credentials", "authorization_code"}
  /\ ~LacksRequiredField

C4_WrongSecret ==
  /\ C4_Case
  /\ \E c \in Clients : c.id = unwrap(req.client_id)
  /\ ~Registered(unwrap(req.client_id), unwrap(req.client_secret))

C4_UnknownClient ==
  /\ C4_Case
  /\ ~\E c \in Clients : c.id = unwrap(req.client_id)

\* C4: a wrong secret and an unknown client both give Err(invalid_client)
\* and leave the token tables unchanged.
C4_BadCredentialsAlike ==
  (C4_WrongSecret \/ C4_UnknownClient) =>
    /\ result = oauth_error("invalid_client")
    /\ TablesUnchanged

\* A wrong secret was rejected while the grant type named was not enabled.
C4_Witness ==
  /\ C4_WrongSecret
  /\ fn = "client_credentials"
  /\ req.grant_type = Some("client_credentials")
  /\ ~grantTypes["client_credentials"].enabled
  /\ result = oauth_error("invalid_client")

(***************************************************************************)
(* C5.  A call that does not return Ok leaves both token tables as they    *)
(* were, and a processor generates a token only after every check of its   *)
(* own has been made and has passed.                                       *)
(***************************************************************************)
Generators == {"generate_access_token", "generate_refresh_token"}

ChecksOf(f) ==
  CASE f = "client_credentials" ->
         <<"check_client_credentials", "check_grant_type">>
    [] f = "refresh_token" ->
         <<"check_refresh_token", "check_scope", "get_client_by_id",
           "get_grant_type_by_name">>
    [] OTHER -> <<>>

\* C5: only a call that returns Ok has written a row, and a generator is
\* called only after all the checks of the processor.
C5_NoTokenForRejectedRequest ==
  /\ (pc = "done" /\ result.kind # "Ok") => TablesUnchanged
  /\ (pc = "done" /\ result.kind = "Ok") =>
       NewRows(accessTokens, pre.accessTokens) # {}
  /\ (\E i \in DOMAIN calls : calls[i] \in Generators) =>
       /\ Len(calls) > Len(ChecksOf(fn))
       /\ SubSeq(calls, 1, Len(ChecksOf(fn))) = ChecksOf(fn)
       /\ \A i \in 1..Len(ChecksOf(fn)) : calls[i] \notin Generators
       /\ pc = "done" => result.kind = "Ok"
  /\ (NewRows(accessTokens, pre.accessTokens) # {} /\ pc # "idle") =>
       \E i \in DOMAIN calls : calls[i] \in Generators

\* A client_credentials call was rejected by its last check with rows stored.
C5_Witness ==
  /\ Done("client_credentials")
  /\ calls = <<"check_client_credentials", "check_grant_type">>
  /\ result = oauth_error("unsupported_grant_type")
  /\ accessTokens # {}

(***************************************************************************)
(* C6.  In every processor the client is authenticated before a            *)
(* grant-specific secret is looked up: no call looks a refresh token up    *)
(* without having called, and passed, check_client_credentials first.      *)
(***************************************************************************)
C6_AuthenticatedBeforeSecretLookup ==
  \A i \in DOMAIN calls :
    calls[i] = "check_refresh_token" =>
      \E j \in 1..(i - 1) : calls[j] = "check_client_credentials"

(***************************************************************************)
(* C7.  A refresh_token call is granted only to the authenticated owner of *)
(* the refresh token: a request whose client_id and client_secret are      *)
(* absent, wrong, or those of another client gets no access token.         *)
(***************************************************************************)
C7_RefreshOnlyForAuthenticatedOwner ==
  (Done("refresh_token") /\ result.kind = "Ok") =>
    /\ is_some(req.client_id) /\ is_some(req.client_secret)
    /\ Registered(unwrap(req.client_id), unwrap(req.client_secret))
    /\ unwrap(req.client_id)
         = Presented(unwrap(req.refresh_token)).client_id

(***************************************************************************)
(* C8.  A refresh_token call with refresh_token and scope present whose    *)
(* refresh token is not found, revoked or expired returns                  *)
(* Err(invalid_grant) and writes no row.                                   *)
(***************************************************************************)
C8_BadRefreshTokenIsInvalidGrant ==
  (/\ Done("refresh_token")
   /\ is_some(req.refresh_token) /\ is_some(req.scope)
   /\ ~PresentsValidRefreshToken) =>
    /\ result = oauth_error("invalid_grant")
    /\ TablesUnchanged

(***************************************************************************)
(* C9.  No processor issues a token while the grant type it operates under *)
(* is disabled: a call whose request names the grant type of its processor *)
(* does not return Ok, and writes nothing, when that grant type is not     *)
(* enabled; so a refresh_token call succeeds only while 'refresh_token' is *)
(* enabled.                                                                *)
(***************************************************************************)
C9_NoTokenUnderDisabledGrantType ==
  (/\ pc = "done"
   /\ req.grant_type = Some(fn)
   /\ ~grantTypes[fn].enabled) =>
    /\ result.kind # "Ok"
    /\ TablesUnchanged

(***************************************************************************)
(* C10.  Every call returns Ok with a response or Err with a kind of the   *)
(* fixed taxonomy; none ends in a panic.                                   *)
(***************************************************************************)
C10_OkOrTaxonomyError ==
  pc = "done" =>
    \/ result.kind = "Ok" /\ is_some(result.response)
    \/ result.kind = "Err" /\ result.error \in ErrorKinds

(***************************************************************************)
(* C11.  An authorization code is single-use: of the otherwise valid       *)
(* redemptions of one code exactly one returns Ok (run one after another,  *)
(* the first) and each of the others returns Err(invalid_grant).  So every *)
(* otherwise valid redemption ends in Ok or in Err(invalid_grant).         *)
(***************************************************************************)
C11_ValidRedemption ==
  /\ Done("authorization_code")
  /\ is_some(req.client_id) /\ is_some(req.client_secret) /\ is_some(req.code)
  /\ Registered(unwrap(req.client_id), unwrap(req.client_secret))
  /\ req.grant_type = Some("authorization_code")
  /\ grantTypes["authorization_code"].enabled

\* C11: an otherwise valid redemption of an authorization code returns Ok or
\* Err(invalid_grant).
C11_CodeRedeemedOnce ==
  C11_ValidRedemption =>
    \/ result.kind = "Ok"
    \/ result = oauth_error("invalid_grant")

(***************************************************************************)
(* C12.  The reads and the writes of one grant decision are atomic with    *)
(* respect to revocation: no access token is written for a refresh token   *)
(* whose revocation is already visible in the datastore.  The call has     *)
(* just returned, so the RefreshTokens table is as it was at the write.    *)
(***************************************************************************)
C12_NoTokenAfterRevocation ==
  (Done("refresh_token") /\ result.kind = "Ok") =>
    \A t \in refreshTokens :
      t.token = unwrap(req.refresh_token) => t.status # "revoked"

(***************************************************************************)
(* C13.  A grant is all or nothing under failure: a call that ends         *)
(* otherwise than in Ok, a client_credentials call that failed between its *)
(* two inserts included, has left no row of its own in either token table. *)
(***************************************************************************)
C13_NoOrphanedTokenRow ==
  (pc = "done" /\ result.kind # "Ok") =>
    /\ NewRows(accessTokens, pre.accessTokens) = {}
    /\ NewRows(refreshTokens, pre.refreshTokens) = {}

(***************************************************************************)
(* C14.  Each processor checks the grant type it implements, not the one   *)
(* the request names: every access token client_credentials writes is      *)
(* bound to the grant type 'client_credentials', whatever grant_type the   *)
(* request carries.                                                        *)
(***************************************************************************)
C14_BoundToOwnGrantType ==
  Done("client_credentials") =>
    \A at \in NewRows(accessTokens, pre.accessTokens) :
      at.grant_type = "client_credentials"

(***************************************************************************)
(* C15.  client_credentials and authorization_code check in the order      *)
(* field presence, client authentication, grant type, and return the error *)
(* of the first check that fails: a request that lacks a required field    *)
(* gets invalid_request whatever its credentials, and a request with all   *)
(* fields and bad credentials gets invalid_client whatever its grant type. *)
(***************************************************************************)
C15_Case ==
  pc = "done" /\ fn \in {"client_credentials", "authorization_code"}

C15_BadCredentials ==
  ~Registered(unwrap(req.client_id), unwrap(req.client_secret))

C15_BadGrantType ==
  \/ unwrap(req.grant_type) \notin DOMAIN grantTypes
  \/ ~grantTypes[unwrap(req.grant_type)].enabled

\* C15: the error returned is that of the first failing check in the order
\* field presence, client authentication, grant type.
C15_FirstFailingCheckDecides ==
  C15_Case =>
    IF LacksRequiredField
    THEN result = oauth_error("invalid_request") /\ calls = <<>>
    ELSE IF C15_BadCredentials
    THEN /\ result = oauth_error("invalid_client")
         /\ calls = <<"check_client_credentials">>
    ELSE IF is_some(req.grant_type) /\ C15_BadGrantType
    THEN /\ result = oauth_error("unsupported_grant_type")
         /\ calls = <<"check_client_credentials", "check_grant_type">>
    ELSE result # oauth_error("invalid_request")
           /\ result # oauth_error("invalid_client")

\* An authorization_code call with all its fields, an unregistered client and
\* an unknown grant type was rejected for its credentials.
C15_Witness ==
  /\ Done("authorization_code")
  /\ ~LacksRequiredField
  /\ C15_BadCredentials
  /\ is_some(req.grant_type) /\ C15_BadGrantType
  /\ result = oauth_error("invalid_client")

(***************************************************************************)
(* C16.  A successful refresh_token grant writes exactly one new access    *)
(* token row, bound to the client stored on the refresh token, to the      *)
(* grant type 'refresh_token' and to the requested scope, and no step of   *)
(* the call changes the RefreshTokens table; so the same valid request     *)
(* made again is granted again, with another access token and the same     *)
(* refresh token.                                                          *)
(***************************************************************************)
\* The step is one of the processor, not of another party of the datastore.
C16_RefreshStep == fn' = "refresh_token" /\ pc' # pc

C16_Grantable(r) ==
  /\ is_some(r.refresh_token) /\ is_some(r.scope)
  /\ \E t \in refreshTokens :
       /\ t.token = unwrap(r.refresh_token) /\ t.status = "valid"
       /\ ScopeSet(unwrap(r.scope)) # {}
       /\ ScopeSet(unwrap(r.scope)) \subseteq ScopeSet(t.scope)

C16_OneAccessTokenWritten ==
  \E at \in accessTokens' :
    /\ at.token \notin TokenIds(accessTokens)
    /\ accessTokens' = accessTokens \cup {at}
    /\ at.client_id =
         (CHOOSE t \in refreshTokens : t.token = unwrap(req.refresh_token)).client_id
    /\ at.grant_type = "refresh_token"
    /\ at.scope = unwrap(req.scope)
    /\ result'.kind = "Ok"
    /\ unwrap(result'.response).access_token = at.token
    /\ unwrap(result'.response).refresh_token = req.refresh_token

\* C16: a refresh_token grant adds one access token row bound to the refresh
\* token's client, to 'refresh_token' and to the requested scope, leaves the
\* RefreshTokens table as it is, and is granted whenever the request is valid.
C16_RefreshAddsOneAccessTokenOnly ==
  [][/\ C16_RefreshStep => refreshTokens' = refreshTokens
     /\ (C16_RefreshStep /\ pc = "idle") =>
          (C16_Grantable(req') <=> pc' = "rt_generate_access_token")
     /\ (C16_RefreshStep /\ pc = "idle" /\ pc' = "done") =>
          accessTokens' = accessTokens /\ result'.kind # "Ok"
     /\ (C16_RefreshStep /\ pc = "rt_generate_access_token") =>
          C16_OneAccessTokenWritten]_vars

\* The same refresh token was used twice for the same scope, by a request that
\* carries the credentials of another client than the token's.
C16_Witness ==
  /\ Done("refresh_token") /\ result.kind = "Ok"
  /\ Cardinality(refreshTokens) = 1
  /\ Cardinality(accessTokens) = 3
  /\ \A at \in accessTokens : at.scope = unwrap(req.scope)
  /\ is_some(req.client_id)
  /\ \A t \in refreshTokens : t.client_id # unwrap(req.client_id)

(***************************************************************************)
(* C17.  Token rows are write-once: no step of a processor updates or      *)
(* deletes a row of either token table, the tables only grow, and a call   *)
(* that ends in Ok has added exactly one access token row.                 *)
(***************************************************************************)
\* A step of a processor: the call moves on.  A status change made by another
\* party of the datastore leaves the call where it is.
C17_ProcessorStep == pc' # pc

\* C17: the processors never update or delete a token row, the token tables
\* only grow, and each successful grant adds exactly one access token row.
C17_TokenRowsWriteOnce ==
  [][C17_ProcessorStep =>
       /\ accessTokens \subseteq accessTokens'
       /\ refreshTokens \subseteq refreshTokens'
       /\ Cardinality(accessTokens') <= Cardinality(accessTokens) + 1
       /\ (pc' = "done" /\ result'.kind = "Ok") =>
            /\ pre'.accessTokens \subseteq accessTokens'
            /\ Cardinality(NewRows(accessTokens', pre'.accessTokens)) = 1]_vars

\* A client that already held an access token and a refresh token was granted
\* new ones, and the earlier rows are still there.
C17_Witness ==
  /\ Done("client_credentials") /\ result.kind = "Ok"
  /\ \E t \in pre.refreshTokens :
       /\ t.client_id = unwrap(req.client_id)
       /\ t \in refreshTokens
  /\ \E a \in pre.accessTokens :
       /\ a.client_id = unwrap(req.client_id)
       /\ a \in accessTokens
  /\ Cardinality(NewRows(accessTokens, pre.accessTokens)) = 1

(***************************************************************************)
(* C18.  Scope never expands along a grant chain: an access token issued   *)
(* through refresh_token has a scope within the scope stored on the        *)
(* refresh token it was minted from, and that stored scope is the scope    *)
(* requested in the client_credentials grant that created the refresh      *)
(* token.                                                                  *)
(***************************************************************************)
C18_Minted == NewRows(accessTokens, pre.accessTokens)

C18_RefreshWithinStoredScope ==
  (Done("refresh_token") /\ result.kind = "Ok") =>
    \A at \in C18_Minted :
      /\ ScopeSet(at.scope) \subseteq
           ScopeSet(Presented(unwrap(req.refresh_token)).scope)
      /\ \E t \in refreshTokens :
           /\ t.token = unwrap(req.refresh_token)
           /\ t.scope = Presented(unwrap(req.refresh_token)).scope

C18_StoredScopeIsRequestedScope ==
  (Done("client_credentials") /\ result.kind = "Ok") =>
    /\ NewRows(refreshTokens, pre.refreshTokens) # {}
    /\ \A t \in NewRows(refreshTokens, pre.refreshTokens) :
         t.scope = unwrap(req.scope)
    /\ \A at \in C18_Minted : at.scope = unwrap(req.scope)

\* Whatever the sequence of grants, every access token is within the scope of
\* some refresh token of its own client.
C18_EveryAccessTokenCovered ==
  (pc \in {"idle", "done"} /\ result.kind # "Panic") =>
    \A at \in accessTokens :
      \E t \in refreshTokens :
        /\ t.client_id = at.client_id
        /\ ScopeSet(at.scope) \subseteq ScopeSet(t.scope)

\* C18: the scope of an access token issued through refresh_token is a subset
\* of the scope stored on its refresh token, which is the scope requested in
\* the client_credentials grant that created the refresh token.
C18_ScopeNeverExpands ==
  /\ C18_RefreshWithinStoredScope
  /\ C18_StoredScopeIsRequestedScope
  /\ C18_EveryAccessTokenCovered

\* A refresh was granted a scope strictly within the one stored on the
\* refresh token.
C18_Witness ==
  /\ Done("refresh_token") /\ result.kind = "Ok"
  /\ \E at \in C18_Minted :
       /\ at.scope = <<"read">>
       /\ Presented(unwrap(req.refresh_token)).scope = <<"read", "write">>

(***************************************************************************)
(* C19.  authorization_code never returns Ok and never writes a token row: *)
(* a request with all four fields, valid client credentials and an         *)
(* existing, enabled grant type ends in Err(unsupported_grant_type), and   *)
(* every other request ends in the error of its first failing check.       *)
(***************************************************************************)
C19_BadCredentials ==
  ~Registered(unwrap(req.client_id), unwrap(req.client_secret))

\* C19: every authorization_code call ends in an error and writes nothing:
\* invalid_request for a missing field, invalid_client for bad credentials,
\* unsupported_grant_type otherwise.
C19_StubAlwaysRejects ==
  Done("authorization_code") =>
    /\ result.kind = "Err"
    /\ TablesUnchanged
    /\ IF LacksRequiredField
       THEN result = oauth_error("invalid_request")
       ELSE IF C19_BadCredentials
       THEN result = oauth_error("invalid_client")
       ELSE is_some(req.grant_type) =>
              result = oauth_error("unsupported_grant_type")

(***************************************************************************)
(* C20.  Narrowing on refresh is not sticky: the scope stored on a refresh *)
(* token never changes, and a refresh that asks for all of it is granted   *)
(* all of it, also after a refresh with the same token obtained a strictly *)
(* narrower scope.                                                         *)
(***************************************************************************)
\* An access token of t's client was issued through refresh_token with a
\* scope strictly within t's.
C20_NarrowedBefore(t, table) ==
  \E a \in table :
    /\ a.client_id = t.client_id
    /\ a.grant_type = "refresh_token"
    /\ ScopeSet(a.scope) \subseteq ScopeSet(t.scope)
    /\ ScopeSet(a.scope) # ScopeSet(t.scope)

C20_StoredScopeKept ==
  \A t \in refreshTokens :
    \E u \in refreshTokens' : u.token = t.token /\ u.scope = t.scope

C20_FullScopeGrantedAgain ==
  (pc = "idle" /\ pc' # pc /\ fn' = "refresh_token") =>
    \A t \in refreshTokens :
      ( /\ req'.refresh_token = Some(t.token)
        /\ req'.scope = Some(t.scope)
        /\ t.status = "valid"
        /\ C20_NarrowedBefore(t, accessTokens) ) =>
        /\ pc' = "rt_generate_access_token"
        /\ locals'.scope = Some(t.scope)

\* C20: no step changes the scope stored on a refresh token, and after a
\* narrower refresh a refresh asking for the full stored scope is accepted
\* for the full stored scope.
C20_NarrowingNotSticky ==
  [][C20_StoredScopeKept /\ C20_FullScopeGrantedAgain]_vars

\* The one refresh token there is was used for 'read' alone and then, with
\* success, for 'read write'.
C20_Witness ==
  /\ Done("refresh_token") /\ result.kind = "Ok"
  /\ Cardinality(refreshTokens) = 1
  /\ Presented(unwrap(req.refresh_token)).scope = <<"read", "write">>
  /\ C20_NarrowedBefore(Presented(unwrap(req.refresh_token)), pre.accessTokens)
  /\ \E at \in NewRows(accessTokens, pre.accessTokens) :
       at.scope = <<"read", "write">>
  /\ \A t \in refreshTokens : t.scope = <<"read", "write">>

====
